---- MODULE Spec2Model ----
(***************************************************************************)
(* The request orchestration of the PageIndex RAG chatbot                  *)
(* (src/core/routes.py, src/core/llm_engine.py): the upload, chat and      *)
(* delete handlers as coroutines of one asyncio event loop, the in-process *)
(* PDF store, the files on disk, the external document service and the     *)
(* LLM endpoint.                                                           *)
(*                                                                         *)
(* A handler runs from one `await` to the next without interruption; the   *)
(* variable `loop` names the task that holds the event loop (0: none).     *)
(* A synchronous call to an external service is a step that keeps the      *)
(* loop while the service works; an awaited call gives it up.              *)
(***************************************************************************)
EXTENDS Integers, Sequences, FiniteSets, TLC

\* Bounds of the model.
NTasks == 2
MaxPdfId == 1

Tasks == 1..NTasks

-----------------------------------------------------------------------------
\* Configuration (src/core/config.py, src/core/llm_engine.py)

MAX_FILE_SIZE == 10 * 1024 * 1024
PDF_STORAGE_PATH == "./uploaded_pdfs"
URL_CUSTOM_LLM_APILOGY == "URL_CUSTOM_LLM"
TOKEN_CUSTOM_LLM_APILOGY == "TOKEN_CUSTOM_LLM"

-----------------------------------------------------------------------------
\* Upload inputs: file names as sequences of characters, content lengths.

FileNames ==
    { <<"a", ".", "p", "d", "f">>,
      <<"A", ".", "P", "D", "F">>,
      <<"a", ".", "t", "x", "t">>,
      <<"p", "d", "f">> }

FileSizes == { MAX_FILE_SIZE, MAX_FILE_SIZE + 1 }

\* str.lower() on one character
LowerChar(c) ==
    CASE c = "A" -> "a"
      [] c = "P" -> "p"
      [] c = "D" -> "d"
      [] c = "F" -> "f"
      [] OTHER -> c

\* str.lower()
Lower(s) == [i \in 1..Len(s) |-> LowerChar(s[i])]

\* str.endswith(suffix)
EndsWith(s, suffix) ==
    /\ Len(s) >= Len(suffix)
    /\ SubSeq(s, Len(s) - Len(suffix) + 1, Len(s)) = suffix

\* Mutant: the suffix is checked without its dot.
IsPdfNameLoose(fn) == EndsWith(Lower(fn), <<"p", "d", "f">>)

\* file.filename.lower().endswith('.pdf')
IsPdfName(fn) == EndsWith(Lower(fn), <<".", "p", "d", "f">>)

\* len(file_content) > settings.MAX_FILE_SIZE
TooLarge(sz) == sz > MAX_FILE_SIZE

\* os.path.join(settings.PDF_STORAGE_PATH, f"{pdf_id}.pdf")
FilePath(pdf_id) == <<PDF_STORAGE_PATH, pdf_id, ".pdf">>

-----------------------------------------------------------------------------
\* The document tree the document service serves, flattened by
\* create_node_mapping: node id -> node.

NodeMap ==
    [ A |-> [node_id |-> "A", title |-> "Cats", page_index |-> 1, text |-> "cat"],
      B |-> [node_id |-> "B", title |-> "Dogs", page_index |-> 2, text |-> "dog"] ]

-----------------------------------------------------------------------------
\* The LLM endpoint: raw texts it may generate, and the outcomes of one POST.

S_AB      == "{\"thinking\": \"t\", \"node_list\": [\"A\", \"B\"]}"
S_EMPTY   == "{\"thinking\": \"t\", \"node_list\": []}"
S_NOTHINK == "{\"node_list\": [\"A\", \"B\"]}"
S_MISSING == "{\"thinking\": \"t\", \"node_list\": [\"A\", \"Z\"]}"
S_PLAIN   == "The document is about cats and dogs."

LlmTexts == { S_AB, S_EMPTY, S_NOTHINK, S_MISSING, S_PLAIN }

\* One POST ends with status 200 and a content string, status 200 and a null
\* content, another status, or an exception (timeout, transport, bad body).
HttpOutcomes ==
    [kind : {"content"}, text : LlmTexts]
        \cup { [kind |-> "null", text |-> ""],
               [kind |-> "status", text |-> "500"],
               [kind |-> "exception", text |-> "timeout"] }

\* What make_async_api_call hands back: generated text, None, the error
\* indicator {"error": ...}, or a raised exception.
TextResult(s)  == [kind |-> "text", text |-> s]
NoneResult     == [kind |-> "none", text |-> ""]
ErrorResult(s) == [kind |-> "error", text |-> s]
RaisedResult(s) == [kind |-> "raised", text |-> s]
Pending        == [kind |-> "pending", text |-> ""]
NoOutcome      == [kind |-> "pending", text |-> ""]
Unset          == [kind |-> "unset", text |-> ""]

\* Mutant: only the status is checked; an exception of client.post escapes.
MakeAsyncApiCallRaises(o) ==
    CASE o.kind = "content" -> TextResult(o.text)
      [] o.kind = "null" -> NoneResult
      [] o.kind = "status" -> ErrorResult("API call failed with status " \o o.text)
      [] o.kind = "exception" -> RaisedResult(o.text)

\* make_async_api_call: the try block around client.post
MakeAsyncApiCall(o) ==
    CASE o.kind = "content" -> TextResult(o.text)
      [] o.kind = "null" -> NoneResult
      [] o.kind = "status" -> ErrorResult("API call failed with status " \o o.text)
      [] o.kind = "exception" -> ErrorResult(o.text)

\* isinstance(result, dict) and "error" in result
IsErrorIndicator(r) == r.kind = "error"

\* The retry of telkomllm_call: url, token and payload of the second attempt,
\* given the first attempt.
FallbackAttempt(first) ==
    [url |-> URL_CUSTOM_LLM_APILOGY, token |-> TOKEN_CUSTOM_LLM_APILOGY,
     payload |-> first.payload, outcome |-> NoOutcome, result |-> Pending]

\* The first attempt of telkomllm_call(prompt, ...)
FirstAttempt(prompt) ==
    [url |-> URL_CUSTOM_LLM_APILOGY, token |-> TOKEN_CUSTOM_LLM_APILOGY,
     payload |-> prompt, outcome |-> NoOutcome, result |-> Pending]

\* The two prompts of chat_with_pdf
SearchPrompt == [stage |-> "search", context |-> ""]
AnswerPrompt(relevant_content) == [stage |-> "answer", context |-> relevant_content]

-----------------------------------------------------------------------------
\* json.loads on what telkomllm_call returned, and the node resolution.

JsonError == [ok |-> FALSE, type |-> "none", keys |-> {}, node_list |-> <<>>]
JsonObject(ks, nl) == [ok |-> TRUE, type |-> "object", keys |-> ks, node_list |-> nl]

\* json.loads(tree_search_result): TypeError on a non-string, JSONDecodeError
\* on a string that is no JSON document.
JsonLoads(r) ==
    IF r.kind # "text" THEN JsonError
    ELSE CASE r.text = S_AB -> JsonObject({"thinking", "node_list"}, <<"A", "B">>)
           [] r.text = S_EMPTY -> JsonObject({"thinking", "node_list"}, <<>>)
           [] r.text = S_NOTHINK -> JsonObject({"node_list"}, <<"A", "B">>)
           [] r.text = S_MISSING -> JsonObject({"thinking", "node_list"}, <<"A", "Z">>)
           [] OTHER -> JsonError

\* "\n\n".join(...)
RECURSIVE Join(_, _)
Join(strs, sep) ==
    IF Len(strs) = 0 THEN ""
    ELSE IF Len(strs) = 1 THEN strs[1]
    ELSE strs[1] \o sep \o Join(Tail(strs), sep)

\* Mutant: a parse failure is swallowed and taken as an empty selection.
SelectionUsableLenient(r) ==
    LET j == JsonLoads(r) IN
    \/ ~j.ok
    \/ /\ j.type = "object"
       /\ "thinking" \in j.keys
       /\ "node_list" \in j.keys
       /\ \A i \in 1..Len(j.node_list) : j.node_list[i] \in DOMAIN NodeMap

\* Lines 174-185 of chat_with_pdf: whether they run without raising.
\* tree_search_result_json['thinking'] needs an object with that key,
\* node_map[node_id] needs every id of node_list in the tree.
SelectionUsable(r) ==
    LET j == JsonLoads(r) IN
    /\ j.ok
    /\ j.type = "object"
    /\ "thinking" \in j.keys
    /\ "node_list" \in j.keys
    /\ \A i \in 1..Len(j.node_list) : j.node_list[i] \in DOMAIN NodeMap

\* relevant_content = "\n\n".join(node_map[node_id]["text"] for node_id in node_list)
RelevantContent(r) ==
    LET nl == JsonLoads(r).node_list IN
    Join([i \in 1..Len(nl) |-> NodeMap[nl[i]].text], "\n\n")

-----------------------------------------------------------------------------
\* State

VARIABLES
    tasks,        \* per request task: its position, locals and response
    loop,         \* the task holding the event loop, 0 when none
    pdf_storage,  \* routes.pdf_storage: pdf_id -> record
    doc_storage,  \* routes.doc_storage: pdf_id -> doc_id
    files,        \* paths present under PDF_STORAGE_PATH
    docs,         \* document service: doc_id -> "processing" | "ready"
    nextId,       \* pdf ids handed out so far, plus one (uuid4 never repeats)
    last          \* the request that ended last, with its response

vars == <<tasks, loop, pdf_storage, doc_storage, files, docs, nextId, last>>

\* A task with no request.
Fresh ==
    [pc |-> "idle", op |-> "none", filename |-> <<>>, size |-> 0,
     pdf_id |-> 0, doc_id |-> 0, file_found |-> FALSE,
     ext |-> <<>>, attempts |-> <<>>, sel |-> Unset, ans |-> Unset,
     status |-> 0, exc |-> "", response |-> ""]

\* Mutant: chat_with_pdf awaits between its membership check and its read.
SuspensionPointsWithLookup == {"u_read", "c_llm", "c_lookup"}

\* The positions at which a handler is suspended in an `await`:
\* await file.read() in upload_pdf, await client.post(...) under telkomllm_call.
SuspensionPoints == {"u_read", "c_llm"}

\* The positions at which a handler is inside a call to an external service.
ExternalWait == {"u_submit", "c_ready", "c_tree", "c_llm"}

\* The event loop runs task t: t holds the loop, or the loop is free and t is
\* suspended in an await (or is a request not yet started).
Runnable(t) ==
    \/ loop = t
    \/ loop = 0 /\ tasks[t].pc \in SuspensionPoints \cup {"idle"}

\* Who holds the loop after task t has moved to position p.
LoopAfter(t, p) == IF p \in SuspensionPoints THEN 0 ELSE t

Goto(t, rec, p) ==
    /\ tasks' = [tasks EXCEPT ![t] = [rec EXCEPT !.pc = p]]
    /\ loop' = LoopAfter(t, p)
    /\ UNCHANGED last

\* The handler ends with a response, an HTTPException or an unhandled
\* exception: it is sent to the client (`last`) and the task is over. The
\* attempts of its last telkomllm_call are gone with that call's frame.
Finish(t, rec, status, exc) ==
    /\ last' = [rec EXCEPT !.pc = "done", !.status = status, !.exc = exc,
                           !.attempts = <<>>]
    /\ tasks' = [tasks EXCEPT ![t] = Fresh]
    /\ loop' = 0

\* A request can start in a task that holds none.
Free(t) == tasks[t].pc = "idle"

\* The pdf ids a client can name: those handed out, and an unknown one (0).
KnownIds == 0..(nextId - 1)

Without(f, k) == [x \in DOMAIN f \ {k} |-> f[x]]

Init ==
    /\ tasks = [t \in Tasks |-> Fresh]
    /\ loop = 0
    /\ pdf_storage = << >>
    /\ doc_storage = << >>
    /\ files = {}
    /\ docs = << >>
    /\ nextId = 1
    /\ last = Fresh

-----------------------------------------------------------------------------
\* upload_pdf

\* Lines 58-66: the extension check, then await file.read().
UploadStart(t, fn) ==
    /\ Free(t)
    /\ Runnable(t)
    /\ LET rec == [Fresh EXCEPT !.op = "upload", !.filename = fn] IN
       IF ~IsPdfName(fn)
       THEN Finish(t, rec, 400, "HTTPException")
       ELSE Goto(t, rec, "u_read")
    /\ UNCHANGED <<pdf_storage, doc_storage, files, docs, nextId>>

\* Lines 66-69: the content has been read (sz bytes); the size check fails.
UploadTooLarge(t, sz) ==
    /\ tasks[t].pc = "u_read"
    /\ Runnable(t)
    /\ TooLarge(sz)
    /\ Finish(t, [tasks[t] EXCEPT !.size = sz], 400, "HTTPException")
    /\ UNCHANGED <<pdf_storage, doc_storage, files, docs, nextId>>

\* Lines 66-87: the content has been read (sz bytes); the size check passes,
\* the id is generated, the file is written and
\* pi_client.submit_document(file_path) is called (synchronous).
UploadWrite(t, sz) ==
    /\ tasks[t].pc = "u_read"
    /\ Runnable(t)
    /\ ~TooLarge(sz)
    /\ nextId <= MaxPdfId
    /\ nextId' = nextId + 1
    /\ files' = files \cup {FilePath(nextId)}
    /\ Goto(t, [tasks[t] EXCEPT !.size = sz, !.pdf_id = nextId,
                                !.ext = Append(@, "submit_document")],
            "u_submit")
    /\ UNCHANGED <<pdf_storage, doc_storage, docs>>

\* Lines 87-108: submit_document returned a response with a doc_id.
UploadStored(t) ==
    /\ tasks[t].pc = "u_submit"
    /\ Runnable(t)
    /\ LET pdf_id == tasks[t].pdf_id
           doc_id == Len(docs) + 1
       IN /\ docs' = Append(docs, "processing")
          /\ doc_storage' = (pdf_id :> doc_id) @@ doc_storage
          /\ pdf_storage' = (pdf_id :> [filename |-> tasks[t].filename,
                                        file_path |-> FilePath(pdf_id),
                                        doc_id |-> doc_id]) @@ pdf_storage
          /\ Finish(t, [tasks[t] EXCEPT !.doc_id = doc_id], 200, "")
    /\ UNCHANGED <<files, nextId>>

\* Mutant: the failure is reported, the written file is left behind.
UploadFailedNoCleanup(t) ==
    /\ tasks[t].pc = "u_submit"
    /\ Runnable(t)
    /\ Finish(t, tasks[t], 500, "HTTPException")
    /\ UNCHANGED <<pdf_storage, doc_storage, files, docs, nextId>>

\* Lines 109-114: submit_document raised, or its response has no "doc_id".
UploadFailed(t) ==
    /\ tasks[t].pc = "u_submit"
    /\ Runnable(t)
    /\ LET file_path == FilePath(tasks[t].pdf_id) IN
       /\ files' = files \ {file_path}
       /\ Finish(t, tasks[t], 500, "HTTPException")
    /\ UNCHANGED <<pdf_storage, doc_storage, docs, nextId>>

-----------------------------------------------------------------------------
\* delete_pdf

\* Lines 225-229: the membership check.
DeleteStart(t, p) ==
    /\ Free(t)
    /\ Runnable(t)
    /\ p \in KnownIds
    /\ LET rec == [Fresh EXCEPT !.op = "delete", !.pdf_id = p] IN
       IF p \notin DOMAIN pdf_storage
       THEN Finish(t, rec, 404, "HTTPException")
       ELSE Goto(t, rec, "d_remove")
    /\ UNCHANGED <<pdf_storage, doc_storage, files, docs, nextId>>

\* Mutant: the doc_storage entry is left behind.
DeleteRemoveLeak(t) ==
    /\ tasks[t].pc = "d_remove"
    /\ Runnable(t)
    /\ LET p == tasks[t].pdf_id
           file_path == pdf_storage[p].file_path
       IN /\ files' = files \ {file_path}
          /\ pdf_storage' = Without(pdf_storage, p)
          /\ Finish(t, [tasks[t] EXCEPT !.file_found = file_path \in files],
                    200, "")
    /\ UNCHANGED <<doc_storage, docs, nextId>>

\* Lines 231-244: the file and the two entries are removed.
DeleteRemove(t) ==
    /\ tasks[t].pc = "d_remove"
    /\ Runnable(t)
    /\ LET p == tasks[t].pdf_id IN
       IF p \in DOMAIN pdf_storage
       THEN LET file_path == pdf_storage[p].file_path IN
            /\ files' = files \ {file_path}
            /\ pdf_storage' = Without(pdf_storage, p)
            /\ doc_storage' = Without(doc_storage, p)
            /\ Finish(t, [tasks[t] EXCEPT !.file_found = file_path \in files],
                      200, "")
       ELSE /\ Finish(t, tasks[t], 500, "KeyError")
            /\ UNCHANGED <<pdf_storage, doc_storage, files>>
    /\ UNCHANGED <<docs, nextId>>

-----------------------------------------------------------------------------
\* The environment: the document service finishes a document; somebody
\* removes an uploaded file from the disk.
DocReady(d) ==
    /\ d \in DOMAIN docs
    /\ docs[d] = "processing"
    /\ docs' = [docs EXCEPT ![d] = "ready"]
    /\ UNCHANGED <<tasks, loop, pdf_storage, doc_storage, files, nextId, last>>

ExternalRemove(path) ==
    /\ path \in files
    /\ files' = files \ {path}
    /\ UNCHANGED <<tasks, loop, pdf_storage, doc_storage, docs, nextId, last>>

-----------------------------------------------------------------------------
\* telkomllm_call and chat_with_pdf

\* The telkomllm_call a suspended chat task is in: "search" or "answer".
Stage(rec) == rec.attempts[1].payload.stage

\* Mutant: the error indicator is not looked for.
AnswerStatusUnchecked(answer) ==
    IF answer.kind \in {"text", "error"} THEN 200 ELSE 500

\* Lines 200-214: what the handler makes of the second call's return value.
\* The error indicator raises HTTPException(500); ChatResponse(response=...)
\* accepts a string only.
AnswerStatus(answer) ==
    IF IsErrorIndicator(answer) THEN 500
    ELSE IF answer.kind = "text" THEN 200
    ELSE 500

\* Lines 120-126: the membership check.
ChatStart(t, p) ==
    /\ Free(t)
    /\ Runnable(t)
    /\ p \in KnownIds
    /\ LET rec == [Fresh EXCEPT !.op = "chat", !.pdf_id = p] IN
       IF p \notin DOMAIN pdf_storage
       THEN Finish(t, rec, 404, "HTTPException")
       ELSE Goto(t, rec, "c_lookup")
    /\ UNCHANGED <<pdf_storage, doc_storage, files, docs, nextId>>

\* Lines 128-133: the record is read and pi_client.is_retrieval_ready(doc_id)
\* is called (synchronous).
ChatLookup(t) ==
    /\ tasks[t].pc = "c_lookup"
    /\ Runnable(t)
    /\ LET p == tasks[t].pdf_id IN
       IF p \in DOMAIN pdf_storage
       THEN Goto(t, [tasks[t] EXCEPT !.doc_id = pdf_storage[p].doc_id,
                                     !.ext = Append(@, "is_retrieval_ready")],
                 "c_ready")
       ELSE Finish(t, tasks[t], 500, "KeyError")
    /\ UNCHANGED <<pdf_storage, doc_storage, files, docs, nextId>>

\* pi_client.is_retrieval_ready(doc_id), as the document service answers it.
IsRetrievalReady(doc_id) == docs[doc_id] = "ready"

\* Mutant: the readiness gate is missing.
RetrievalAllowedAlways(doc_id) == TRUE

\* Line 133: `if pi_client.is_retrieval_ready(doc_id):`
RetrievalAllowed(doc_id) == IsRetrievalReady(doc_id)

\* Lines 133-134: the document is ready; pi_client.get_tree is called
\* (synchronous).
ChatReady(t) ==
    /\ tasks[t].pc = "c_ready"
    /\ Runnable(t)
    /\ RetrievalAllowed(tasks[t].doc_id)
    /\ Goto(t, [tasks[t] EXCEPT !.ext = Append(@, "get_tree")], "c_tree")
    /\ UNCHANGED <<pdf_storage, doc_storage, files, docs, nextId>>

\* Lines 137-139: the document is not ready.
ChatNotReady(t) ==
    /\ tasks[t].pc = "c_ready"
    /\ Runnable(t)
    /\ ~RetrievalAllowed(tasks[t].doc_id)
    /\ Finish(t, tasks[t], 400, "HTTPException")
    /\ UNCHANGED <<pdf_storage, doc_storage, files, docs, nextId>>

\* Lines 134-172 and llm_engine.py 44-61: the tree arrived; the search prompt
\* is built and telkomllm_call awaits its first POST.
ChatSearch(t) ==
    /\ tasks[t].pc = "c_tree"
    /\ Runnable(t)
    /\ Goto(t, [tasks[t] EXCEPT !.ext = Append(@, "telkomllm_call_search"),
                                !.attempts = <<FirstAttempt(SearchPrompt)>>],
            "c_llm")
    /\ UNCHANGED <<pdf_storage, doc_storage, files, docs, nextId>>

\* llm_engine.py 61-65: the first POST ended with the error indicator; the
\* same call is awaited a second time.
LlmFallback(t, o) ==
    /\ tasks[t].pc = "c_llm"
    /\ Runnable(t)
    /\ LET n == Len(tasks[t].attempts)
           r == MakeAsyncApiCall(o)
       IN /\ n = 1
          /\ IsErrorIndicator(r)
          /\ Goto(t, [tasks[t] EXCEPT
                        !.attempts = Append([@ EXCEPT ![n].outcome = o,
                                                      ![n].result = r],
                                            FallbackAttempt(@[1]))],
                  "c_llm")
    /\ UNCHANGED <<pdf_storage, doc_storage, files, docs, nextId>>

\* llm_engine.py 61-72: telkomllm_call returns the result of its last POST
\* (or the exception that escaped it) to chat_with_pdf.
LlmReturn(t, o) ==
    /\ tasks[t].pc = "c_llm"
    /\ Runnable(t)
    /\ LET n == Len(tasks[t].attempts)
           r == MakeAsyncApiCall(o)
           rec == [tasks[t] EXCEPT !.attempts[n].outcome = o,
                                   !.attempts[n].result = r]
       IN /\ ~(n = 1 /\ IsErrorIndicator(r))
          /\ IF Stage(tasks[t]) = "search"
             THEN Goto(t, [rec EXCEPT !.sel = r], "c_resolve")
             ELSE Goto(t, [rec EXCEPT !.ans = r], "c_finish")
    /\ UNCHANGED <<pdf_storage, doc_storage, files, docs, nextId>>

\* Lines 174-185 raise (caught at 216-218).
ChatSelectionFails(t) ==
    /\ tasks[t].pc = "c_resolve"
    /\ Runnable(t)
    /\ \/ tasks[t].sel.kind = "raised"
       \/ ~SelectionUsable(tasks[t].sel)
    /\ Finish(t, tasks[t], 500, "HTTPException")
    /\ UNCHANGED <<pdf_storage, doc_storage, files, docs, nextId>>

\* Lines 174-200: the nodes are resolved, the context is assembled and
\* telkomllm_call awaits the first POST of the answer prompt.
ChatAnswer(t) ==
    /\ tasks[t].pc = "c_resolve"
    /\ Runnable(t)
    /\ tasks[t].sel.kind # "raised"
    /\ SelectionUsable(tasks[t].sel)
    /\ Goto(t, [tasks[t] EXCEPT
                  !.ext = Append(@, "telkomllm_call_answer"),
                  !.attempts = <<FirstAttempt(AnswerPrompt(RelevantContent(tasks[t].sel)))>>],
            "c_llm")
    /\ UNCHANGED <<pdf_storage, doc_storage, files, docs, nextId>>

\* Lines 201-218: the answer is returned, or the failure is reported.
ChatFinish(t) ==
    /\ tasks[t].pc = "c_finish"
    /\ Runnable(t)
    /\ LET answer == tasks[t].ans
           status == IF answer.kind = "raised" THEN 500 ELSE AnswerStatus(answer)
       IN IF status = 200
          THEN Finish(t, [tasks[t] EXCEPT !.response = answer.text], 200, "")
          ELSE Finish(t, tasks[t], 500, "HTTPException")
    /\ UNCHANGED <<pdf_storage, doc_storage, files, docs, nextId>>

-----------------------------------------------------------------------------

\* One step of request task t, whose upload is named from FN and whose POSTs
\* end as one of OUT.
TaskStep(t, FN, OUT) ==
    \/ \E fn \in FN : UploadStart(t, fn)
    \/ \E sz \in FileSizes : UploadTooLarge(t, sz)
    \/ \E sz \in FileSizes : UploadWrite(t, sz)
    \/ UploadStored(t)
    \/ UploadFailed(t)
    \/ \E p \in 0..MaxPdfId : DeleteStart(t, p)
    \/ DeleteRemove(t)
    \/ \E p \in 0..MaxPdfId : ChatStart(t, p)
    \/ ChatLookup(t)
    \/ ChatReady(t)
    \/ ChatNotReady(t)
    \/ ChatSearch(t)
    \/ \E o \in OUT : LlmFallback(t, o)
    \/ \E o \in OUT : LlmReturn(t, o)
    \/ ChatSelectionFails(t)
    \/ ChatAnswer(t)
    \/ ChatFinish(t)

\* One step of the system: of a request task in TS, or of the environment.
Step(TS, FN, OUT) ==
    \/ \E t \in TS : TaskStep(t, FN, OUT)
    \/ \E d \in 1..MaxPdfId : DocReady(d)
    \/ \E p \in 1..MaxPdfId : ExternalRemove(FilePath(p))

\* Concurrent requests, over a narrow choice of file names and POST outcomes.
ConcFileNames == { <<"A", ".", "P", "D", "F">>, <<"a", ".", "t", "x", "t">> }
ConcOutcomes ==
    { [kind |-> "content", text |-> S_AB],
      [kind |-> "exception", text |-> "timeout"] }

Next == Step(Tasks, ConcFileNames, ConcOutcomes)

Spec == Init /\ [][Next]_vars

\* One request at a time, over every file name and POST outcome.
NextSeq == Step({1}, FileNames, HttpOutcomes)

SpecSeq == Init /\ [][NextSeq]_vars

-----------------------------------------------------------------------------
\* Properties

Has(seq, x) == \E i \in 1..Len(seq) : seq[i] = x

\* The requests in flight, and the one that ended last.
Requests == {tasks[t] : t \in Tasks} \cup {last}

\* C1: a chat whose document the service reports as not ready ends with the
\* "still processing" condition (400) having called neither get_tree nor the
\* LLM, and no request is ever past the readiness gate with a document that
\* is not ready.
C1_NotReadyNoRetrieval ==
    /\ [](\A r \in Requests :
            (r.op = "chat" /\ (Has(r.ext, "get_tree")
                               \/ Has(r.ext, "telkomllm_call_search")
                               \/ Has(r.ext, "telkomllm_call_answer")))
                => docs[r.doc_id] = "ready")
    /\ [](last.op = "chat" /\ last.status = 400
            => last.ext = <<"is_retrieval_ready">>)
    /\ [][\A t \in Tasks :
            (/\ tasks[t].pc = "c_ready"
             /\ docs[tasks[t].doc_id] # "ready"
             /\ tasks'[t] # tasks[t])
                => /\ tasks'[t].pc = "idle"
                   /\ last'.op = "chat"
                   /\ last'.status = 400
                   /\ last'.ext = <<"is_retrieval_ready">>]_vars

C1_Witness ==
    /\ last.op = "chat"
    /\ last.status = 400
    /\ last.pdf_id \in DOMAIN pdf_storage
    /\ docs[last.doc_id] = "processing"

\* C2: the answer-synthesis call is made only after the node-selection output
\* parsed as JSON and every id of its node_list was found in the tree: a
\* request whose selection output is no JSON (the error indicator included)
\* or names an absent node never makes the call and ends with 500.
C2_Unparsed(r) == ~JsonLoads(r.sel).ok
C2_NamesAbsentNode(r) ==
    \E i \in 1..Len(JsonLoads(r.sel).node_list) :
        JsonLoads(r.sel).node_list[i] \notin {"A", "B"}

C2_SynthesisAfterResolution ==
    \A r \in Requests :
        (r.op = "chat" /\ r.sel.kind # "unset"
            /\ (C2_Unparsed(r) \/ C2_NamesAbsentNode(r)))
        => /\ ~Has(r.ext, "telkomllm_call_answer")
           /\ r.pc \in {"c_resolve", "done"}
           /\ r.pc = "done" => r.status = 500

C2_Witness ==
    /\ last.op = "chat"
    /\ last.sel = TextResult(S_MISSING)
    /\ last.status = 500

\* C3: whenever the node-selection output is a JSON object with a node_list
\* whose ids are all in the tree, the answer-synthesis call is made, with the
\* texts of the named nodes in node_list order joined by a blank line as its
\* context ("cat\n\ndog" for [A, B], "" for []).
C3_ExpectedContext(r) ==
    IF JsonLoads(r.sel).node_list = <<"A", "B">> THEN "cat\n\ndog" ELSE ""

C3_ContextFromNodeList ==
    \A r \in Requests :
        (/\ r.op = "chat"
         /\ r.sel.kind = "text"
         /\ JsonLoads(r.sel).ok
         /\ JsonLoads(r.sel).type = "object"
         /\ "node_list" \in JsonLoads(r.sel).keys
         /\ JsonLoads(r.sel).node_list \in {<<"A", "B">>, <<>>}
         /\ r.pc # "c_resolve")
        => /\ Has(r.ext, "telkomllm_call_answer")
           /\ r.pc = "c_llm" =>
                r.attempts[1].payload = [stage |-> "answer",
                                         context |-> C3_ExpectedContext(r)]

\* C4: a chat answers 200 only when both LLM calls returned generated text,
\* and then with the raw text of the second; an error indicator from either
\* call ends the request with 500 and is never the answer.
C4_AnswerOnlyFromText ==
    /\ (last.op = "chat" /\ last.status = 200)
        => /\ last.sel.kind = "text"
           /\ last.ans.kind = "text"
           /\ last.response = last.ans.text
    /\ (last.op = "chat" /\ (last.sel.kind = "error" \/ last.ans.kind = "error"))
        => /\ last.status = 500
           /\ last.response = ""

C4_Witness ==
    /\ last.op = "chat"
    /\ last.status = 200
    /\ last.sel = TextResult(S_EMPTY)
    /\ last.response = S_PLAIN

C6_DeleteRemovesAll ==
    /\ [][(last' # last /\ last'.op = "delete") =>
            LET p == last'.pdf_id IN
            IF p \in DOMAIN pdf_storage
            THEN /\ last'.status = 200
                 /\ p \notin DOMAIN pdf_storage'
                 /\ p \notin DOMAIN doc_storage'
                 /\ FilePath(p) \notin files'
            ELSE /\ last'.status = 404
                 /\ UNCHANGED <<pdf_storage, doc_storage, files>>]_vars
    /\ [][\A p \in DOMAIN pdf_storage' \ DOMAIN pdf_storage :
            \E t \in Tasks : /\ tasks[t].pc = "u_submit"
                             /\ tasks[t].pdf_id = p
                             /\ p = nextId - 1]_vars

C6_Witness ==
    /\ last.op = "delete"
    /\ last.status = 200
    /\ ~last.file_found
    /\ last.pdf_id \notin DOMAIN pdf_storage

\* C7: an upload whose name does not end in ".pdf" (whatever the case) or
\* whose content exceeds MAX_FILE_SIZE is answered 400 without an id having
\* been generated for it, a file written or a document submitted, and the
\* step that rejects it changes neither the files, the document service nor
\* the two stores.
C7_BadName(fn) == fn \in { <<"a", ".", "t", "x", "t">>, <<"p", "d", "f">> }

C7_RejectedBeforeWrite ==
    /\ [](\A r \in Requests :
            (r.op = "upload" /\ (C7_BadName(r.filename) \/ r.size > MAX_FILE_SIZE))
                => /\ r.pc = "done"
                   /\ r.status = 400
                   /\ r.pdf_id = 0
                   /\ r.ext = <<>>)
    /\ [](\A t \in Tasks : tasks[t].pc = "u_read"
            => tasks[t].pdf_id = 0 /\ tasks[t].ext = <<>>)
    /\ [][(last' # last /\ last'.op = "upload" /\ last'.status = 400)
            => UNCHANGED <<files, docs, pdf_storage, doc_storage, nextId>>]_vars

C7_Witness ==
    /\ last.op = "upload"
    /\ last.status = 400
    /\ last.size > MAX_FILE_SIZE
    /\ last.filename = <<"A", ".", "P", "D", "F">>

\* C8: an upload that fails after its file was written answers 500, and
\* leaves no file at its path and no entry for its pdf_id in either store.
C8_FailedUploadCleansUp ==
    /\ (last.op = "upload" /\ last.status = 500)
        => /\ last.pdf_id >= 1
           /\ FilePath(last.pdf_id) \notin files
           /\ last.pdf_id \notin DOMAIN pdf_storage
           /\ last.pdf_id \notin DOMAIN doc_storage
    /\ (last.op = "upload" /\ last.pdf_id >= 1)
        => \/ last.status = 500
           \/ last.status = 200 /\ last.doc_id >= 1

C8_Witness ==
    /\ last.op = "upload"
    /\ last.status = 500
    /\ last.ext = <<"submit_document">>

\* C9: under every interleaving, a chat answered 404 has called neither the
\* document service nor the LLM and names a pdf_id that is not stored; no
\* request ends with an unhandled KeyError; and a handler that passed its
\* membership check still finds the record when it reads or removes it.
C9_NoMissingKey ==
    /\ last.exc # "KeyError"
    /\ (last.op = "chat" /\ last.status = 404)
        => /\ last.ext = <<>>
           /\ last.pdf_id \notin DOMAIN pdf_storage
    /\ \A t \in Tasks :
        tasks[t].pc \in {"c_lookup", "d_remove"}
            => tasks[t].pdf_id \in DOMAIN pdf_storage

C9_Witness ==
    \E t \in Tasks :
        /\ tasks[t].op = "chat"
        /\ tasks[t].pc = "c_llm"
        /\ last.op = "delete"
        /\ last.status = 200
        /\ last.pdf_id = tasks[t].pdf_id

\* C10: while a request is inside a call to an external service, every other
\* task can take its next step.
C10_OthersCanStep ==
    \A t \in Tasks :
        tasks[t].pc \in ExternalWait =>
            \A u \in Tasks \ {t} : ENABLED TaskStep(u, ConcFileNames, ConcOutcomes)

====
